---- MODULE Spec2Model ----
(***************************************************************************)
(* The box registry of draggable-box (src/src/state.ts) together with the  *)
(* view-layer handlers that call it (createBtn / delBtn click in the view, *)
(* the mousedown handler of makeDraggable), and the drag / gesture engine  *)
(* that makeDraggable wires for every box element.                         *)
(*                                                                         *)
(* The registry is module-level state: the array dragBoxList and the three *)
(* counters boxId, zIndex and topIndex.  Every handler runs to completion  *)
(* on the single UI thread, so each handler is one action.                 *)
(***************************************************************************)
EXTENDS Integers, Sequences, FiniteSets, TLC

\* Bound on the number of handler / API calls in one behaviour.
MaxCalls == 6

\* Bound on the number of input events in one behaviour of the engine.
MaxEvents == 6

\* Bound on the number of boxes created in one behaviour of the engine.
MaxBoxes == 2

\* Bound on the number of callbacks waiting for the next paint.
MaxPending == 6

\* Bound on the number of handler runs in one behaviour of the gesture
\* timer under fair scheduling.
MaxGestureEvents == 5

\* Granularity of time, in milliseconds.
TickMs == 50

\* debounceTime(250): the quiet period of the gesture buffer, in ms.
QuietPeriod == 250

VARIABLES
    dragBoxList,  \* state.ts:26  the live collection, in insertion order
    boxId,        \* state.ts:27  next id to hand out
    zIndex,       \* state.ts:28  zIndex of the next created box
    topIndex,     \* state.ts:29  zIndex of the next promoted box
    dom,          \* ids whose dragBox element is attached to #app
    dragSub,      \* ids whose mouseDown$ drag subscription is still alive
    last,         \* the call that produced the current state, and its result
    createdIds,   \* history: ids returned by createNewBox, in call order
    deletedIds,   \* history: ids that were live when deleteBox(id) was called
    touchOrder,   \* history: ids ordered by their latest creation / promotion
    nCalls,       \* history: number of calls made so far
    wired,        \* ids for which makeDraggable(dragBox, dragHead) has run
    session,      \* per wired id: the inner mouseMove$ subscriptions of switchMap
    gestureBuffer,\* per wired id: length of buffer()'s currentBuffer
    debounce,     \* per wired id: ms until debounceTime emits, -1 when idle
    raf,          \* callbacks passed to requestAnimationFrame, not yet run
    style,        \* per wired id: the inline style and text of the element
    app,          \* geometry of #app and #header
    captured,     \* history: per wired id, values captured by its latest session
    pressed,      \* history: per wired id, mousedowns on it since the last mouseup
    gestureLog    \* history: per wired id, timing of its mousedowns

registry == <<dragBoxList, boxId, zIndex, topIndex>>

engine == <<wired, session, gestureBuffer, debounce, raf, style,
            captured, pressed, gestureLog>>

vars == <<dragBoxList, boxId, zIndex, topIndex, dom, dragSub, last,
          createdIds, deletedIds, touchOrder, nCalls, wired, session,
          gestureBuffer, debounce, raf, style, app, captured, pressed,
          gestureLog>>

(***************************************************************************)
(* Data                                                                    *)
(***************************************************************************)
DEFAULT_CONFIG ==
    [ header  |-> [title |-> "Klick mich", color |-> "lightgrey"],
      start   |-> [x |-> 0, y |-> 0],
      size    |-> [height |-> 200, width |-> 100],
      content |-> [text |-> "Hallo Welt", color |-> "lightcyan"] ]

\* The record literal built by createNewBox.
NewBoxItem(id, z) ==
    [ config |-> DEFAULT_CONFIG, id |-> id, zIndex |-> z,
      position |-> [x |-> 0, y |-> 0] ]

LiveIds == { dragBoxList[i].id : i \in 1..Len(dragBoxList) }

(***************************************************************************)
(* Array primitives, with JavaScript's 0-based indices                     *)
(***************************************************************************)
\* A search that returns the 1-based position of the first match.
findIndexOneBased(list, id) ==
    LET hits == { i \in 1..Len(list) : list[i].id = id }
    IN  IF hits = {} THEN -1
        ELSE CHOOSE i \in hits : \A j \in hits : i <= j

\* Array.prototype.findIndex(box => box.id === id): first match, or -1.
findIndex(list, id) ==
    LET hits == { i \in 1..Len(list) : list[i].id = id }
    IN  IF hits = {} THEN -1
        ELSE (CHOOSE i \in hits : \A j \in hits : i <= j) - 1

\* A variant that wraps a negative index to the end (Array.prototype.at).
ElementAtWrapping(list, index) ==
    IF index >= 0 /\ index < Len(list) THEN index + 1
    ELSE IF index < 0 /\ Len(list) + index >= 0 THEN Len(list) + index + 1
    ELSE 0

\* list[index]: the 1-based position of the element read, 0 for undefined.
ElementAt(list, index) ==
    IF index >= 0 /\ index < Len(list) THEN index + 1 ELSE 0

\* A variant that leaves the array as it was (slice does not mutate).
sliceInsteadOfSplice(list, start, deleteCount) == list

\* A variant without the delete count: removes everything from start on.
spliceToEnd(list, start, deleteCount) ==
    LET len  == Len(list)
        from == IF start < 0 THEN (IF len + start < 0 THEN 0 ELSE len + start)
                ELSE (IF start > len THEN len ELSE start)
    IN  SubSeq(list, 1, from)

\* Array.prototype.splice(start, deleteCount): a negative start counts from
\* the end of the array.
splice(list, start, deleteCount) ==
    LET len  == Len(list)
        from == IF start < 0 THEN (IF len + start < 0 THEN 0 ELSE len + start)
                ELSE (IF start > len THEN len ELSE start)
        cnt  == IF deleteCount < 0 THEN 0
                ELSE IF deleteCount > len - from THEN len - from
                ELSE deleteCount
    IN  SubSeq(list, 1, from) \o SubSeq(list, from + cnt + 1, len)

(***************************************************************************)
(* Counter updates                                                         *)
(***************************************************************************)
\* boxId left as it is.
boxIdUnchanged(b) == b

\* boxId += 2 in place of boxId++.
IncBoxIdByTwo(b) == b + 2

\* boxId++ in createNewBox.
IncBoxId(b) == b + 1

\* zIndex += 2 in place of zIndex++.
IncZIndexByTwo(z) == z + 2

\* zIndex++ in createNewBox.
IncZIndex(z) == z + 1

\* topIndex not incremented by a creation.
topIndexKeptOnCreate(t) == t

\* topIndex++ in createNewBox.
IncTopIndexOnCreate(t) == t + 1

\* The value a pre-increment would assign.
AssignedZIndexPreIncrement(t) == t + 1

\* The value bringBoxToFront assigns to the box and returns.
AssignedZIndex(t) == t

\* topIndex left as it is.
topIndexUnchanged(t) == t

\* topIndex-- in place of topIndex++.
DecTopIndexOnPromote(t) == t - 1

\* topIndex++ in bringBoxToFront.
IncTopIndexOnPromote(t) == t + 1

(***************************************************************************)
(* History bookkeeping                                                     *)
(***************************************************************************)
Without(seq, id) == SelectSeq(seq, LAMBDA e : e # id)

Call(op, via, arg, live, outcome, ret, box) ==
    [ op |-> op, via |-> via, arg |-> arg, live |-> live,
      outcome |-> outcome, ret |-> ret, box |-> box ]

(***************************************************************************)
(* Registry operations (state.ts)                                          *)
(***************************************************************************)
\* createNewBox(): never throws.
createNewBox(via) ==
    LET newBoxItem == NewBoxItem(boxId, zIndex)
    IN  /\ boxId' = IncBoxId(boxId)
        /\ zIndex' = IncZIndex(zIndex)
        /\ topIndex' = IncTopIndexOnCreate(topIndex)
        /\ dragBoxList' = Append(dragBoxList, newBoxItem)
        /\ last' = Call("createNewBox", via, -1, FALSE, "ok", -1,
                        <<newBoxItem>>)
        /\ createdIds' = Append(createdIds, newBoxItem.id)
        /\ touchOrder' = Append(Without(touchOrder, newBoxItem.id),
                                newBoxItem.id)
        /\ UNCHANGED deletedIds

\* A bringBoxToFront that also stores a position in the record.
bringBoxToFrontStoringPosition(id, via) ==
    LET boxIndex == findIndex(dragBoxList, id)
        at       == ElementAt(dragBoxList, boxIndex)
        live     == id \in LiveIds
    IN  IF at = 0
        THEN /\ last' = Call("bringBoxToFront", via, id, live, "throws", -1,
                             <<>>)
             /\ UNCHANGED <<registry, createdIds, deletedIds, touchOrder>>
        ELSE LET newZIndex == AssignedZIndex(topIndex)
             IN  /\ dragBoxList' =
                        [dragBoxList EXCEPT ![at].zIndex = newZIndex,
                                            ![at].position = [x |-> 1,
                                                              y |-> 1]]
                 /\ topIndex' = IncTopIndexOnPromote(topIndex)
                 /\ last' = Call("bringBoxToFront", via, id, live, "ok",
                                 newZIndex, <<>>)
                 /\ touchOrder' =
                        Append(Without(touchOrder, dragBoxList[at].id),
                               dragBoxList[at].id)
                 /\ UNCHANGED <<boxId, zIndex, createdIds, deletedIds>>

\* bringBoxToFront(id): dragBoxList[boxIndex] is undefined when the id is
\* not found, and the assignment to its zIndex throws a TypeError before
\* anything is written.
bringBoxToFront(id, via) ==
    LET boxIndex == findIndex(dragBoxList, id)
        at       == ElementAt(dragBoxList, boxIndex)
        live     == id \in LiveIds
    IN  IF at = 0
        THEN /\ last' = Call("bringBoxToFront", via, id, live, "throws", -1,
                             <<>>)
             /\ UNCHANGED <<registry, createdIds, deletedIds, touchOrder>>
        ELSE LET newZIndex == AssignedZIndex(topIndex)
             IN  /\ dragBoxList' =
                        [dragBoxList EXCEPT ![at].zIndex = newZIndex]
                 /\ topIndex' = IncTopIndexOnPromote(topIndex)
                 /\ last' = Call("bringBoxToFront", via, id, live, "ok",
                                 newZIndex, <<>>)
                 /\ touchOrder' =
                        Append(Without(touchOrder, dragBoxList[at].id),
                               dragBoxList[at].id)
                 /\ UNCHANGED <<boxId, zIndex, createdIds, deletedIds>>

\* A deleteBox that also gives the top index back.
deleteBoxReleasingTopIndex(id, via) ==
    LET boxIndex == findIndex(dragBoxList, id)
        live     == id \in LiveIds
    IN  /\ dragBoxList' = splice(dragBoxList, boxIndex, 1)
        /\ topIndex' = topIndex - 1
        /\ last' = Call("deleteBox", via, id, live, "ok", -1, <<>>)
        /\ deletedIds' = IF live THEN deletedIds \cup {id} ELSE deletedIds
        /\ UNCHANGED <<boxId, zIndex, createdIds, touchOrder>>

\* deleteBox(id): findIndex, then splice(boxIndex, 1); never throws.
deleteBox(id, via) ==
    LET boxIndex == findIndex(dragBoxList, id)
        live     == id \in LiveIds
    IN  /\ dragBoxList' = splice(dragBoxList, boxIndex, 1)
        /\ last' = Call("deleteBox", via, id, live, "ok", -1, <<>>)
        /\ deletedIds' = IF live THEN deletedIds \cup {id} ELSE deletedIds
        /\ UNCHANGED <<boxId, zIndex, topIndex, createdIds, touchOrder>>

(***************************************************************************)
(* Geometry (getBoundingClientRect, clientWidth, clientHeight)             *)
(*                                                                         *)
(* Lengths are integers in thousandths of a pixel, so that three           *)
(* successive scalings by 1.3 of the initial 200px x 130px stay exact.     *)
(* The layout is the one the offset arithmetic of the mousedown handler    *)
(* presumes: #app starts right below #header at the left edge of the       *)
(* viewport, and a box's translation is its offset inside #app.            *)
(***************************************************************************)
Px(n) == n * 1000

\* Sizes #app and #header may have: a roomy container and one that is
\* smaller than a box on both axes.
Containers ==
    { [clientWidth |-> Px(500), clientHeight |-> Px(460),
       headerHeight |-> Px(60), hasApp |-> TRUE, hasHeader |-> TRUE],
      [clientWidth |-> Px(150), clientHeight |-> Px(160),
       headerHeight |-> Px(60), hasApp |-> TRUE, hasHeader |-> TRUE] }

\* Documents in which getElementById('header') or getElementById('app')
\* returns null: makeDraggable stores the null and goes on wiring.
IncompleteDocuments ==
    { [clientWidth |-> Px(500), clientHeight |-> Px(460),
       headerHeight |-> 0, hasApp |-> TRUE, hasHeader |-> FALSE],
      [clientWidth |-> 0, clientHeight |-> 0,
       headerHeight |-> Px(60), hasApp |-> FALSE, hasHeader |-> TRUE] }

\* headerRect!.height or app!.clientHeight throws a TypeError, after the
\* projection has called bringBoxToFront, setNewZIndex and setColor.
CollaboratorMissing == ~app.hasHeader \/ ~app.hasApp

\* Where on the handle, relative to the box's corner, a mousedown may land.
GrabPoints == { <<Px(10), Px(10)>>, <<Px(60), Px(20)>> }

\* clientX / clientY of mousemove events.
PointerPoints ==
    { <<Px(-50), Px(-50)>>, <<Px(130), Px(200)>>, <<Px(1000), Px(1000)>> }

\* The inline style createBox gives a new element, and its position text.
InitialStyle(box) ==
    [ left |-> 0, top |-> 0, width |-> Px(200), height |-> Px(130),
      zIndex |-> box.zIndex, background |-> "stylesheet",
      textX |-> box.position.x, textY |-> box.position.y ]

\* dragBox.getBoundingClientRect(); all zero for a detached element.
Rect(id) ==
    IF id \in dom
    THEN [ left |-> style[id].left,
           top |-> app.headerHeight + style[id].top,
           width |-> style[id].width, height |-> style[id].height ]
    ELSE [ left |-> 0, top |-> 0, width |-> 0, height |-> 0 ]

Math_max(a, b) == IF a >= b THEN a ELSE b

Math_min(a, b) == IF a <= b THEN a ELSE b

(***************************************************************************)
(* Drag pipeline: mouseDown$.pipe(switchMap(...)).subscribe(...)           *)
(***************************************************************************)
\* A handle whose dataset carries no id: Number(undefined) is NaN, which
\* equals no id.
datasetIdMissing(id) == -1

\* Number(element.dataset.id) of the handle createBox built for box id.
datasetId(id) == id

\* The values the switchMap projection captures at mousedown.
Capture(id, clientX, clientY) ==
    LET rect == Rect(id)
    IN  [ offsetX   |-> clientX - rect.left,
          offsetY   |-> clientY - rect.top + app.headerHeight,
          maxHeight |-> app.clientHeight - app.headerHeight,
          maxWidth  |-> app.clientWidth,
          boxWidth  |-> rect.width,
          boxHeight |-> rect.height ]

\* The clamp without its upper bound.
newPositionNoUpperBound(s, clientX, clientY) ==
    LET proposedLeft == clientX - s.offsetX
        proposedTop  == clientY - s.offsetY
    IN  [ newLeft |-> Math_max(proposedLeft, 0),
          newTop  |-> Math_max(proposedTop, 0) ]

\* A clamp that reads the container's size at the time of the mousemove.
newPositionLiveBounds(s, clientX, clientY) ==
    LET proposedLeft == clientX - s.offsetX
        proposedTop  == clientY - s.offsetY
    IN  [ newLeft |-> Math_min(Math_max(proposedLeft, 0),
                               app.clientWidth - s.boxWidth),
          newTop  |-> Math_min(Math_max(proposedTop, 0),
                               app.clientHeight - app.headerHeight
                                   - s.boxHeight) ]

\* The position the map() over mouseMove$ emits for a session.
newPosition(s, clientX, clientY) ==
    LET proposedLeft == clientX - s.offsetX
        proposedTop  == clientY - s.offsetY
    IN  [ newLeft |-> Math_min(Math_max(proposedLeft, 0),
                               s.maxWidth - s.boxWidth),
          newTop  |-> Math_min(Math_max(proposedTop, 0),
                               s.maxHeight - s.boxHeight) ]

\* mergeMap keeps the earlier inner subscriptions.
mergeMap(inner, s) == Append(inner, s)

\* switchMap unsubscribes the earlier inner subscription and subscribes
\* the new one.
switchMap(inner, s) == <<s>>

\* An inner subscription that completes with its first position (take(1)).
sessionEndedByFirstMove(inner) == <<>>

\* What a mousemove does to the inner subscription: it emits and stays
\* subscribed.
sessionOnMouseMove(inner) == inner

\* An inner subscription that is not ended by mouseup.
withoutTakeUntil(inner) == inner

\* takeUntil(mouseUp$): a mouseup completes the inner subscription.
takeUntil(inner) == <<>>

(***************************************************************************)
(* Gesture pipeline: buffer(mouseDown$.pipe(debounceTime(250)))            *)
(***************************************************************************)
\* What a mouseup does to the buffer: nothing, no mouseup listener feeds it.
bufferOnMouseUp(n) == n

\* A buffer that keeps its content when the notifier emits.
bufferKeptOnNotifier(n) == n

\* buffer(): when the closing notifier emits, the buffer is emitted and
\* an empty one is started.
bufferOnNotifier(n) == 0

\* A timer that is not restarted while it runs (throttle-like).
debounceNotRestarted(t) == IF t = -1 THEN QuietPeriod ELSE t

\* debounceTime on a mousedown: the quiet period starts again.
debounceOnMouseDown(t) == QuietPeriod

\* filter(mouseDownLength => mouseDownLength >= 2)
IsDoubleClick(n) == n >= 2

\* A gesture handler that also ends the drag in progress.
sessionEndedByDoubleClick(inner) == <<>>

\* What a double-gesture does to the inner subscription: nothing.
sessionOnDoubleClick(inner) == inner

\* A scaling by 1.5.
ScaledByThreeHalves(v) == (v * 15) \div 10

\* rect.width * 1.3 and rect.height * 1.3
Scaled(v) == (v * 13) \div 10

(***************************************************************************)
(* requestAnimationFrame                                                   *)
(***************************************************************************)
Frame(el, kind, x, y, color) ==
    [ el |-> el, kind |-> kind, x |-> x, y |-> y, color |-> color ]

\* A commit of the value after the one returned.
setNewZIndexOffByOne(el, z) == Frame(el, "zIndex", z + 1, 0, "")

\* setNewZIndex(zIndex)
setNewZIndex(el, z) == Frame(el, "zIndex", z, 0, "")

\* A colour commit that ignores its argument.
setColorAlwaysActive(el, color) ==
    Frame(el, "background", 0, 0, "rgb(51, 65, 185)")

\* setColor(color)
setColor(el, color) == Frame(el, "background", 0, 0, color)

\* dragTransform(newLeft, newTop)
dragTransform(el, pos) == Frame(el, "transform", pos.newLeft, pos.newTop, "")

\* displayPosition(newX, newY)
displayPosition(el, pos) == Frame(el, "text", pos.newLeft, pos.newTop, "")

\* The callback of doubleClick$.subscribe: both dimensions times 1.3.
resize(el, rect) ==
    Frame(el, "size", Scaled(rect.width), Scaled(rect.height), "")

\* A resize that writes the whole inline style and so drops the
\* translation.
ApplyFrameSizeReplacesStyle(st, f) ==
    IF f.kind = "zIndex" THEN [st EXCEPT ![f.el].zIndex = f.x]
    ELSE IF f.kind = "background" THEN [st EXCEPT ![f.el].background = f.color]
    ELSE IF f.kind = "transform"
         THEN [st EXCEPT ![f.el].left = f.x, ![f.el].top = f.y]
    ELSE IF f.kind = "text"
         THEN [st EXCEPT ![f.el].textX = f.x, ![f.el].textY = f.y]
    ELSE [st EXCEPT ![f.el].width = f.x, ![f.el].height = f.y,
                    ![f.el].left = 0, ![f.el].top = 0]

\* One callback run against the element's style.
ApplyFrame(st, f) ==
    IF f.kind = "zIndex" THEN [st EXCEPT ![f.el].zIndex = f.x]
    ELSE IF f.kind = "background" THEN [st EXCEPT ![f.el].background = f.color]
    ELSE IF f.kind = "transform"
         THEN [st EXCEPT ![f.el].left = f.x, ![f.el].top = f.y]
    ELSE IF f.kind = "text"
         THEN [st EXCEPT ![f.el].textX = f.x, ![f.el].textY = f.y]
    ELSE [st EXCEPT ![f.el].width = f.x, ![f.el].height = f.y]

\* The callbacks of one frame run in the order they were requested.
RECURSIVE ApplyAll(_, _)
ApplyAll(st, frames) ==
    IF frames = <<>> THEN st
    ELSE ApplyAll(ApplyFrame(st, Head(frames)), Tail(frames))

\* A frame that runs only the callback requested last.
animationFrameLatestOnly(st, frames) == ApplyFrame(st, frames[Len(frames)])

\* A frame: the browser runs every callback requested before it.
animationFrame(st, frames) == ApplyAll(st, frames)

\* The ids of a set in ascending order: the order in which the elements
\* were wired, and so the order of their document listeners.
RECURSIVE Ascending(_)
Ascending(S) ==
    IF S = {} THEN <<>>
    ELSE LET m == CHOOSE x \in S : \A y \in S : x <= y
         IN  <<m>> \o Ascending(S \ {m})

\* The callbacks one mousemove makes the sessions of the listed ids request.
RECURSIVE MoveFrames(_, _, _)
MoveFrames(ids, clientX, clientY) ==
    IF ids = <<>> THEN <<>>
    ELSE LET id == Head(ids)
             frames(k) == LET pos == newPosition(session[id][k], clientX, clientY)
                          IN  <<dragTransform(id, pos), displayPosition(id, pos)>>
             RECURSIVE all(_)
             all(k) == IF k > Len(session[id]) THEN <<>>
                       ELSE frames(k) \o all(k + 1)
         IN  all(1) \o MoveFrames(Tail(ids), clientX, clientY)

\* The callbacks one mouseup makes the listed ids request.
RECURSIVE UpFrames(_)
UpFrames(ids) ==
    IF ids = <<>> THEN <<>>
    ELSE <<setColor(Head(ids), "rgb(38, 146, 141)")>> \o UpFrames(Tail(ids))

(***************************************************************************)
(* History of the gesture timing                                           *)
(***************************************************************************)
\* No mousedown yet.
NoGesture ==
    [ sinceDown |-> QuietPeriod + 1, closed |-> TRUE,
      runLen |-> 0, runFires |-> 0, chainLen |-> 0, chainFires |-> 0 ]

\* A mousedown: it continues the run when less than 250ms passed since the
\* previous one, and it continues the chain when the timer callback has not
\* run since the previous one.
LogMouseDown(g) ==
    LET newRun   == g.sinceDown >= QuietPeriod
        newChain == g.closed
    IN  [ sinceDown  |-> 0, closed |-> FALSE,
          runLen     |-> IF newRun THEN 1 ELSE g.runLen + 1,
          runFires   |-> IF newRun THEN 0 ELSE g.runFires,
          chainLen   |-> IF newChain THEN 1 ELSE g.chainLen + 1,
          chainFires |-> IF newChain THEN 0 ELSE g.chainFires ]

\* The timer callback ran, and fired a double-gesture event or not.
LogFlush(g, fired) ==
    [ g EXCEPT !.closed = TRUE,
               !.runFires = IF fired THEN @ + 1 ELSE @,
               !.chainFires = IF fired THEN @ + 1 ELSE @ ]

\* d milliseconds passed.
LogTime(g, d) ==
    [ g EXCEPT !.sinceDown = IF @ + d > QuietPeriod THEN QuietPeriod + 1
                             ELSE @ + d ]

(***************************************************************************)
(* Actions                                                                 *)
(***************************************************************************)
\* The per-element state before any element is wired.
Nothing == [i \in {} |-> 0]

\* The per-element state f with element id added.
Extend(f, id, v) == [i \in DOMAIN f \cup {id} |-> IF i = id THEN v ELSE f[i]]

\* Ids a caller may pass: every id handed out so far, 0 (never handed out)
\* and boxId (not handed out yet).
ArgIds == 0..boxId

Init ==
    /\ dragBoxList = <<>>
    /\ boxId = 1
    /\ zIndex = 0
    /\ topIndex = 1
    /\ dom = {}
    /\ dragSub = {}
    /\ last = Call("init", "none", -1, FALSE, "ok", -1, <<>>)
    /\ createdIds = <<>>
    /\ deletedIds = {}
    /\ touchOrder = <<>>
    /\ nCalls = 0
    /\ wired = {}
    /\ session = Nothing
    /\ gestureBuffer = Nothing
    /\ debounce = Nothing
    /\ raf = <<>>
    /\ style = Nothing
    /\ app \in Containers
    /\ captured = Nothing
    /\ pressed = Nothing
    /\ gestureLog = Nothing

\* A direct call of createNewBox().
CreateNewBox ==
    /\ nCalls' = nCalls + 1
    /\ createNewBox("api")
    /\ UNCHANGED <<dom, dragSub, engine, app>>

\* A direct call of bringBoxToFront(id).
BringBoxToFront ==
    \E id \in ArgIds :
        /\ nCalls' = nCalls + 1
        /\ bringBoxToFront(id, "api")
        /\ UNCHANGED <<dom, dragSub, engine, app>>

\* A direct call of deleteBox(id).
DeleteBox ==
    \E id \in ArgIds :
        /\ nCalls' = nCalls + 1
        /\ deleteBox(id, "api")
        /\ UNCHANGED <<dom, dragSub, engine, app>>

\* createApp() and the click handler of createBtn: createNewBox(), then
\* createBox(newBoxState) builds the element, wires makeDraggable and the
\* element is appended to #app; without #app the append throws and the
\* wired element stays detached.
ClickCreate ==
    /\ nCalls' = nCalls + 1
    /\ createNewBox("view")
    /\ dom' = IF app.hasApp THEN dom \cup {boxId} ELSE dom
    /\ dragSub' = dragSub \cup {boxId}
    /\ wired' = wired \cup {boxId}
    /\ style' = Extend(style, boxId, InitialStyle(NewBoxItem(boxId, zIndex)))
    /\ session' = Extend(session, boxId, <<>>)
    /\ gestureBuffer' = Extend(gestureBuffer, boxId, 0)
    /\ debounce' = Extend(debounce, boxId, -1)
    /\ captured' = Extend(captured, boxId, <<>>)
    /\ pressed' = Extend(pressed, boxId, 0)
    /\ gestureLog' = Extend(gestureLog, boxId, NoGesture)
    /\ UNCHANGED <<raf, app>>

\* The click handler of a box's delBtn: deleteBox(options.id), then
\* dragBox.remove().  The subscriptions of makeDraggable stay.
ClickDelete ==
    \E id \in dom :
        /\ nCalls' = nCalls + 1
        /\ deleteBox(id, "view")
        /\ dom' = dom \ {id}
        /\ UNCHANGED <<dragSub, engine, app>>

\* mousedown on the handle of an attached box.  Its listeners run in the
\* order they were added: the drag pipeline, buffer()'s source, and the
\* debounceTime of buffer()'s closing notifier.
\* The switchMap projection reads the id from the handle's dataset, calls
\* bringBoxToFront(id), requests the z-index and colour commits, captures
\* the geometry and returns the inner stream.  An exception thrown in the
\* projection errors the subscription, which then handles no further
\* mousedown and drops its inner subscription.
MouseDown ==
    \E id \in dom : \E grab \in GrabPoints :
        LET clientX == Rect(id).left + grab[1]
            clientY == Rect(id).top + grab[2]
            s       == Capture(id, clientX, clientY)
        IN  /\ Len(raf) < MaxPending
            /\ nCalls' = nCalls + 1
            /\ IF id \in dragSub
               THEN /\ bringBoxToFront(datasetId(id), "mousedown")
                    /\ IF last'.outcome = "throws"
                       THEN /\ dragSub' = dragSub \ {id}
                            /\ session' = [session EXCEPT ![id] = <<>>]
                            /\ UNCHANGED <<raf, captured>>
                       ELSE /\ raf' = raf \o
                                   << setNewZIndex(id, last'.ret),
                                      setColor(id, "rgb(51, 65, 185)") >>
                            /\ IF CollaboratorMissing
                               THEN /\ dragSub' = dragSub \ {id}
                                    /\ session' = [session EXCEPT
                                                      ![id] = <<>>]
                                    /\ UNCHANGED captured
                               ELSE /\ session' = [session EXCEPT
                                                      ![id] = switchMap(@, s)]
                                    /\ captured' =
                                           [captured EXCEPT ![id] = <<s>>]
                                    /\ UNCHANGED dragSub
               ELSE /\ last' = Call("mousedown", "mousedown", id,
                                    id \in LiveIds, "ignored", -1, <<>>)
                    /\ UNCHANGED <<registry, dragSub, createdIds, deletedIds,
                                   touchOrder, raf, session, captured>>
            /\ gestureBuffer' = [gestureBuffer EXCEPT ![id] = @ + 1]
            /\ debounce' = [debounce EXCEPT ![id] = debounceOnMouseDown(@)]
            /\ pressed' = [pressed EXCEPT ![id] = @ + 1]
            /\ gestureLog' = [gestureLog EXCEPT ![id] = LogMouseDown(@)]
            /\ UNCHANGED <<dom, wired, style, app>>

\* mousemove on the document: every inner subscription maps the event to
\* a clamped position, which the subscriber hands to dragTransform and
\* displayPosition.
MouseMove ==
    \E p \in PointerPoints :
        /\ Len(raf) < MaxPending
        /\ nCalls' = nCalls + 1
        /\ raf' = raf \o MoveFrames(Ascending(wired), p[1], p[2])
        /\ session' = [id \in DOMAIN session |->
                          sessionOnMouseMove(session[id])]
        /\ last' = Call("mousemove", "document", p[1], FALSE, "ok", p[2],
                        <<>>)
        /\ UNCHANGED <<registry, dom, dragSub, createdIds, deletedIds,
                       touchOrder, wired, gestureBuffer, debounce,
                       style, app, captured, pressed, gestureLog>>

\* mouseup on the document: takeUntil completes every inner subscription,
\* and every wired element requests its idle colour.
MouseUp ==
    /\ Len(raf) < MaxPending
    /\ nCalls' = nCalls + 1
    /\ session' = [id \in DOMAIN session |-> takeUntil(session[id])]
    /\ gestureBuffer' =
           [id \in DOMAIN gestureBuffer |-> bufferOnMouseUp(gestureBuffer[id])]
    /\ raf' = raf \o UpFrames(Ascending(wired))
    /\ pressed' = [id \in DOMAIN pressed |-> 0]
    /\ last' = Call("mouseup", "document", -1, FALSE, "ok", -1, <<>>)
    /\ UNCHANGED <<registry, dom, dragSub, createdIds, deletedIds,
                   touchOrder, wired, debounce, style, app, captured,
                   gestureLog>>

\* The debounce timer of one element is due: the closing notifier emits,
\* buffer() emits its buffer and starts an empty one, and a buffer of two
\* or more mousedowns reaches the subscriber, which measures the box and
\* requests the resize.
TimerFire ==
    \E id \in wired :
        LET n     == gestureBuffer[id]
            fired == IsDoubleClick(n)
        IN  /\ debounce[id] = 0
            /\ nCalls' = nCalls + 1
            /\ debounce' = [debounce EXCEPT ![id] = -1]
            /\ gestureBuffer' = [gestureBuffer EXCEPT
                                     ![id] = bufferOnNotifier(@)]
            /\ raf' = IF fired THEN Append(raf, resize(id, Rect(id)))
                      ELSE raf
            /\ session' = IF fired
                          THEN [session EXCEPT
                                   ![id] = sessionOnDoubleClick(@)]
                          ELSE session
            /\ gestureLog' = [gestureLog EXCEPT ![id] = LogFlush(@, fired)]
            /\ last' = Call("debounce", "timer", id, id \in LiveIds,
                            IF fired THEN "fired" ELSE "filtered", n, <<>>)
            /\ UNCHANGED <<registry, dom, dragSub, createdIds, deletedIds,
                           touchOrder, wired, style, app, captured, pressed>>

\* The distinct position commits among the given callbacks.
PositionCommits(frames) ==
    { frames[i] : i \in { j \in 1..Len(frames) :
                             frames[j].kind = "transform" } }

\* The next paint: every pending callback runs, in request order.
Paint ==
    /\ raf # <<>>
    /\ nCalls' = nCalls + 1
    /\ style' = animationFrame(style, raf)
    /\ raf' = <<>>
    /\ last' = Call("paint", "frame", Cardinality(PositionCommits(raf)),
                    FALSE, "ok", Len(raf), raf)
    /\ UNCHANGED <<registry, dom, dragSub, createdIds, deletedIds,
                   touchOrder, wired, session, gestureBuffer, debounce,
                   app, captured, pressed, gestureLog>>

\* Time passes, up to the next timer that is due.  A due timer runs before
\* time passes on.
Tick ==
    LET active == { id \in wired : debounce[id] > 0 }
        d == IF \E id \in active : debounce[id] < TickMs
             THEN CHOOSE t \in { debounce[id] : id \in active } :
                      \A id \in active : t <= debounce[id]
             ELSE TickMs
    IN  /\ \A id \in wired : debounce[id] # 0
        /\ debounce' = [id \in DOMAIN debounce |->
                           IF debounce[id] > 0 THEN debounce[id] - d
                           ELSE debounce[id]]
        /\ gestureLog' = [id \in DOMAIN gestureLog |->
                             LogTime(gestureLog[id], d)]
        /\ UNCHANGED <<registry, dom, dragSub, last, createdIds, deletedIds,
                       touchOrder, nCalls, wired, session, gestureBuffer,
                       raf, style, app, captured, pressed>>

\* #app is laid out at another size.
ResizeContainer ==
    /\ app \in Containers
    /\ nCalls' = nCalls + 1
    /\ app' \in Containers \ {app}
    /\ last' = Call("resize", "layout", -1, FALSE, "ok", -1, <<>>)
    /\ UNCHANGED <<registry, dom, dragSub, createdIds, deletedIds,
                   touchOrder, engine>>

\* The registry under direct calls and under the handlers that call it.
Next ==
    \/ nCalls < MaxCalls /\ CreateNewBox
    \/ nCalls < MaxCalls /\ BringBoxToFront
    \/ nCalls < MaxCalls /\ DeleteBox
    \/ nCalls < MaxCalls /\ ClickCreate
    \/ nCalls < MaxCalls /\ ClickDelete
    \/ nCalls < MaxCalls /\ MouseDown

Spec == Init /\ [][Next]_vars

\* The page: the buttons, the pointer, the timers and the paints.
NextDrag ==
    \/ nCalls < MaxEvents /\ boxId <= MaxBoxes /\ ClickCreate
    \/ nCalls < MaxEvents /\ ClickDelete
    \/ nCalls < MaxEvents /\ MouseDown
    \/ nCalls < MaxEvents /\ MouseMove
    \/ nCalls < MaxEvents /\ MouseUp
    \/ nCalls < MaxEvents /\ ResizeContainer
    \/ TimerFire
    \/ Paint
    \/ Tick

SpecDrag == Init /\ [][NextDrag]_vars

\* makeDraggable looks #app and #header up in whatever document it is
\* loaded into: the page above, or a document that lacks one of the two.
InitAnyDocument ==
    /\ dragBoxList = <<>>
    /\ boxId = 1
    /\ zIndex = 0
    /\ topIndex = 1
    /\ dom = {}
    /\ dragSub = {}
    /\ last = Call("init", "none", -1, FALSE, "ok", -1, <<>>)
    /\ createdIds = <<>>
    /\ deletedIds = {}
    /\ touchOrder = <<>>
    /\ nCalls = 0
    /\ wired = {}
    /\ session = Nothing
    /\ gestureBuffer = Nothing
    /\ debounce = Nothing
    /\ raf = <<>>
    /\ style = Nothing
    /\ app \in Containers \cup IncompleteDocuments
    /\ captured = Nothing
    /\ pressed = Nothing
    /\ gestureLog = Nothing

SpecWiring == InitAnyDocument /\ [][NextDrag]_vars

\* The page in a container that holds a new box and keeps its size.
InitFixedContainer ==
    /\ Init
    /\ InitialStyle(NewBoxItem(1, 0)).width <= app.clientWidth
    /\ InitialStyle(NewBoxItem(1, 0)).height
           <= app.clientHeight - app.headerHeight

NextFixedContainer ==
    \/ nCalls < MaxEvents /\ boxId <= MaxBoxes /\ ClickCreate
    \/ nCalls < MaxEvents /\ ClickDelete
    \/ nCalls < MaxEvents /\ MouseDown
    \/ nCalls < MaxEvents /\ MouseMove
    \/ nCalls < MaxEvents /\ MouseUp
    \/ TimerFire
    \/ Paint
    \/ Tick

SpecFixedContainer == InitFixedContainer /\ [][NextFixedContainer]_vars

\* The gesture timer under the scheduling of the event loop: time passes,
\* and the callback of a due timer runs.
NextGesture ==
    \/ nCalls < MaxGestureEvents /\ boxId <= MaxBoxes /\ ClickCreate
    \/ nCalls < MaxGestureEvents /\ MouseDown
    \/ nCalls < MaxGestureEvents /\ MouseUp
    \/ TimerFire
    \/ Paint
    \/ Tick

SpecGesture ==
    /\ Init
    /\ [][NextGesture]_vars
    /\ WF_vars(Tick)
    /\ WF_vars(TimerFire)

(***************************************************************************)
(* Properties                                                              *)
(***************************************************************************)
\* The step is a call (every action counts its call).
IsCall == nCalls' = nCalls + 1

\* The zIndex of the live box with the given id.
zIndexOf(id) ==
    dragBoxList[CHOOSE i \in 1..Len(dragBoxList) : dragBoxList[i].id = id].zIndex

\* The live ids, ordered by their latest creation or promotion.
LiveTouchOrder == SelectSeq(touchOrder, LAMBDA e : e \in LiveIds)

\* C1: every id returned by createNewBox is greater than every id returned
\* before it (so the returned ids are pairwise distinct and increasing in
\* call order), and it is neither live nor the id of a deleted box.
C1_IdsIncreaseAndAreNeverReused ==
    [][ (IsCall /\ last'.op = "createNewBox") =>
            LET new == last'.box[1].id
            IN  /\ \A i \in 1..Len(createdIds) : createdIds[i] < new
                /\ new \notin deletedIds
                /\ new \notin LiveIds ]_vars

\* A box is created after an earlier box was deleted, with three ids handed
\* out in all.
C1_Witness ==
    /\ last.op = "createNewBox"
    /\ deletedIds # {}
    /\ Len(createdIds) >= 3

\* C2: right after a successful bringBoxToFront(id) the promoted box is
\* live and its zIndex is strictly greater than that of every other live
\* box.
C2_PromotedIsUniqueMaximum ==
    (last.op = "bringBoxToFront" /\ last.outcome = "ok") =>
        \E i \in 1..Len(dragBoxList) :
            /\ dragBoxList[i].id = last.arg
            /\ \A j \in 1..Len(dragBoxList) :
                   j # i => dragBoxList[j].zIndex < dragBoxList[i].zIndex

\* A promotion among three live boxes, after an earlier promotion.
C2_Witness ==
    /\ last.op = "bringBoxToFront"
    /\ last.outcome = "ok"
    /\ Len(dragBoxList) >= 3
    /\ topIndex >= 6

\* C3: the live box most recently created or promoted holds the maximum
\* zIndex among the live boxes.
C3_MostRecentHoldsMaximum ==
    LiveTouchOrder # <<>> =>
        LET recent == LiveTouchOrder[Len(LiveTouchOrder)]
        IN  \A j \in 1..Len(dragBoxList) :
                dragBoxList[j].zIndex <= zIndexOf(recent)

\* C4: from the initial state, the first created box has id 1 and zIndex 0,
\* the second has id 2 and zIndex 1, and a mousedown on box 1's handle then
\* sets box 1's zIndex to 2 while box 2 stays at 1.
C4_EndToEndScenario ==
    /\ (nCalls = 1 /\ last.op = "createNewBox") =>
           (last.box[1].id = 1 /\ last.box[1].zIndex = 0)
    /\ (nCalls = 2 /\ last.op = "createNewBox" /\ Len(createdIds) = 2) =>
           (last.box[1].id = 2 /\ last.box[1].zIndex = 1)
    /\ (/\ nCalls = 3
        /\ Len(createdIds) = 2
        /\ last.op = "bringBoxToFront"
        /\ last.via = "mousedown"
        /\ last.arg = 1
        /\ last.outcome = "ok") =>
           (zIndexOf(1) = 2 /\ zIndexOf(2) = 1)

\* C5: createNewBox gives the new box the value of topIndex, the counter
\* bringBoxToFront hands out, increments that counter by one, sets position
\* (0,0), appends the record to the live collection and does not fail.
C5_CreateUsesTopIndex ==
    [][ (IsCall /\ last'.op = "createNewBox") =>
            LET b == last'.box[1]
            IN  /\ b.zIndex = topIndex
                /\ topIndex' = topIndex + 1
                /\ b.position = [x |-> 0, y |-> 0]
                /\ dragBoxList' = Append(dragBoxList, b)
                /\ last'.outcome = "ok" ]_vars

\* C6: deleteBox(id) with an id that is not live changes neither the live
\* collection nor any counter, and raises no error.
C6_DeleteOfMissingIdIsNoOp ==
    [][ (IsCall /\ last'.op = "deleteBox" /\ last'.arg \notin LiveIds) =>
            /\ UNCHANGED registry
            /\ last'.outcome = "ok" ]_vars

\* C7: deleteBox(id) with a live id removes exactly the box with that id,
\* keeps every other box (order, id, zIndex) and leaves boxId, zIndex and
\* topIndex unchanged.
C7_DeleteRemovesExactlyThatBox ==
    [][ (IsCall /\ last'.op = "deleteBox" /\ last'.arg \in LiveIds) =>
            LET id == last'.arg
            IN  /\ dragBoxList' = SelectSeq(dragBoxList, LAMBDA b : b.id # id)
                /\ Len(dragBoxList') = Len(dragBoxList) - 1
                /\ UNCHANGED <<boxId, zIndex, topIndex>> ]_vars

\* A live box was deleted and at least two other boxes remain.
C7_Witness ==
    /\ last.op = "deleteBox"
    /\ last.live
    /\ Len(dragBoxList) >= 2

C10_PromoteAssignsOldTopIndex ==
    [][ (IsCall /\ last'.op = "bringBoxToFront" /\ last'.outcome = "ok") =>
            LET id == last'.arg
            IN  /\ Len(dragBoxList') = Len(dragBoxList)
                /\ \A i \in 1..Len(dragBoxList) :
                       /\ dragBoxList'[i].id = dragBoxList[i].id
                       /\ dragBoxList[i].id = id =>
                              dragBoxList'[i].zIndex = topIndex
                       /\ dragBoxList[i].id # id =>
                              dragBoxList'[i] = dragBoxList[i]
                /\ id \in LiveIds
                /\ topIndex' = topIndex + 1
                /\ last'.ret = topIndex ]_vars

\* A promotion succeeded while another box is live.
C10_Witness ==
    /\ last.op = "bringBoxToFront"
    /\ last.outcome = "ok"
    /\ last.ret >= 3
    /\ Len(dragBoxList) >= 2

\* C11: topIndex never decreases (so it is never reset); it increases by
\* exactly one on each createNewBox and on each successful bringBoxToFront.
C11_TopIndexMonotonic ==
    [][ /\ topIndex' >= topIndex
        /\ (IsCall /\ last'.op = "createNewBox") => topIndex' = topIndex + 1
        /\ (IsCall /\ last'.op = "bringBoxToFront" /\ last'.outcome = "ok") =>
               topIndex' = topIndex + 1 ]_vars

\* A box is created after a promotion and a deletion have happened.
C11_Witness ==
    /\ last.op = "createNewBox"
    /\ deletedIds # {}
    /\ topIndex > boxId

\* C13: a live box's zIndex never decreases while it is live, and every
\* promotion gives the box a zIndex strictly greater than the one it had.
C13_BoxZIndexIncreases ==
    [][ \A i \in 1..Len(dragBoxList) : \A j \in 1..Len(dragBoxList') :
            dragBoxList'[j].id = dragBoxList[i].id =>
                /\ dragBoxList'[j].zIndex >= dragBoxList[i].zIndex
                /\ ( /\ IsCall
                     /\ last'.op = "bringBoxToFront"
                     /\ last'.outcome = "ok"
                     /\ last'.arg = dragBoxList[i].id ) =>
                       dragBoxList'[j].zIndex > dragBoxList[i].zIndex ]_vars

\* A box that was promoted before is promoted again.
C13_Witness ==
    /\ last.op = "bringBoxToFront"
    /\ last.outcome = "ok"
    /\ zIndex = 1
    /\ topIndex >= 4

(***************************************************************************)
(* Properties of the drag / gesture engine                                 *)
(***************************************************************************)
\* The callbacks requested by the step.
NewFrames == SubSeq(raf', Len(raf) + 1, Len(raf'))

\* The callbacks of one kind for one element among the given ones.
FramesOf(frames, el, kind) ==
    SelectSeq(frames, LAMBDA f : f.el = el /\ f.kind = kind)

\* The element whose handle received the mousedown of the step.
PressedElement == CHOOSE id \in wired : pressed'[id] = pressed[id] + 1

\* clamp(v, lo, hi) = max(lo, min(v, hi)) on both axes.
ClampedPosition(s, clientX, clientY) ==
    [ newLeft |-> Math_max(0, Math_min(clientX - s.offsetX,
                                       s.maxWidth - s.boxWidth)),
      newTop  |-> Math_max(0, Math_min(clientY - s.offsetY,
                                       s.maxHeight - s.boxHeight)) ]

\* C12: topIndex changes only in a createNewBox or bringBoxToFront call;
\* deleteBox, mousemove, mouseup, the timer callback with its double-gesture
\* event, a paint and the passing of time leave it unchanged.
C12_OnlyCreateAndPromoteChangeTopIndex ==
    [][ /\ topIndex' # topIndex =>
               (IsCall /\ last'.op \in {"createNewBox", "bringBoxToFront"})
        /\ (IsCall /\ last'.op \in {"deleteBox", "mousemove", "mouseup",
                                    "debounce", "paint"}) =>
               topIndex' = topIndex ]_vars

\* A paint ran after a double-gesture event and after a box was deleted.
C12_Witness ==
    /\ last.op = "paint"
    /\ deletedIds # {}
    /\ \E id \in wired : gestureLog[id].chainFires >= 1

\* C14: a mousemove makes a session whose bounds are not smaller than the
\* box request exactly the position max(0, min(pointer - offset, bound -
\* size)) on each axis, which lies between 0 and bound - size; bounds
\* 500x400, box 100x50 and offset (10,10) give (400,350) for a move at
\* (1000,1000) and (0,0) for a move at (-50,-50).
C14_ClampedPosition ==
    [][ (IsCall /\ last'.op = "mousemove") =>
            /\ \A id \in wired : \A k \in 1..Len(session[id]) :
                   LET s   == session[id][k]
                       pos == ClampedPosition(s, last'.arg, last'.ret)
                   IN  (s.maxWidth - s.boxWidth >= 0
                            /\ s.maxHeight - s.boxHeight >= 0) =>
                           /\ FramesOf(NewFrames, id, "transform")[k]
                                  = dragTransform(id, pos)
                           /\ pos.newLeft >= 0
                           /\ pos.newLeft <= s.maxWidth - s.boxWidth
                           /\ pos.newTop >= 0
                           /\ pos.newTop <= s.maxHeight - s.boxHeight
            /\ LET s == [ offsetX |-> Px(10), offsetY |-> Px(10),
                          maxWidth |-> Px(500), maxHeight |-> Px(400),
                          boxWidth |-> Px(100), boxHeight |-> Px(50) ]
               IN  /\ newPosition(s, Px(1000), Px(1000))
                          = [newLeft |-> Px(400), newTop |-> Px(350)]
                   /\ newPosition(s, Px(-50), Px(-50))
                          = [newLeft |-> 0, newTop |-> 0] ]_vars

\* A move far to the lower right was clamped to the upper bounds of a
\* session in the roomy container.
C14_Witness ==
    /\ last.op = "mousemove"
    /\ \E id \in wired :
           /\ session[id] # <<>>
           /\ session[id][1].maxWidth - session[id][1].boxWidth > 0
           /\ \E i \in 1..Len(raf) :
                  /\ raf[i].el = id
                  /\ raf[i].kind = "transform"
                  /\ raf[i].x = session[id][1].maxWidth
                                    - session[id][1].boxWidth
                  /\ raf[i].y = session[id][1].maxHeight
                                    - session[id][1].boxHeight

\* C15: when the box is larger than the container on an axis, every
\* mousemove of the session requests 0 on that axis.
C15_DegenerateClampPinsAtZero ==
    [][ (IsCall /\ last'.op = "mousemove") =>
            \A id \in wired : \A k \in 1..Len(session[id]) :
                LET s == session[id][k]
                    f == FramesOf(NewFrames, id, "transform")[k]
                IN  /\ s.maxWidth - s.boxWidth < 0 => f.x = 0
                    /\ s.maxHeight - s.boxHeight < 0 => f.y = 0 ]_vars

\* C16: a mousemove requests no commit for an element whose handle was not
\* pressed since the last mouseup (or never), and a mouseup leaves an
\* element without session without session, and is no error.
C16_NoPositionUnlessDragging ==
    [][ /\ (IsCall /\ last'.op = "mousemove") =>
               \A id \in wired :
                   pressed[id] = 0 =>
                       /\ FramesOf(NewFrames, id, "transform") = <<>>
                       /\ FramesOf(NewFrames, id, "text") = <<>>
        /\ (IsCall /\ last'.op = "mouseup") =>
               /\ last'.outcome = "ok"
               /\ \A id \in wired :
                      session[id] = <<>> =>
                          /\ session'[id] = <<>>
                          /\ captured'[id] = captured[id] ]_vars

\* A mousemove arrives after an element's session was ended by a mouseup.
C16_Witness ==
    /\ last.op = "mousemove"
    /\ \E id \in wired : pressed[id] = 0 /\ captured[id] # <<>>

\* C17: an element has at most one session, and a mousemove makes a
\* dragging element request exactly one position, computed from the values
\* captured by the latest mousedown on its handle.
C17_NewSessionSupersedes ==
    [][ /\ \A id \in wired' : Len(session'[id]) <= 1
        /\ (IsCall /\ last'.op = "mousemove") =>
               \A id \in wired :
                   session[id] # <<>> =>
                       FramesOf(NewFrames, id, "transform")
                           = << dragTransform(id,
                                    newPosition(captured[id][1],
                                                last'.arg, last'.ret)) >>
      ]_vars

\* A mousemove arrives for an element whose handle was pressed twice, at
\* different points, without a mouseup in between.
C17_Witness ==
    /\ last.op = "mousemove"
    /\ \E id \in wired :
           /\ pressed[id] >= 2
           /\ session[id] # <<>>
           /\ raf # <<>>

\* C18: a mousedown on the handle of a live box calls bringBoxToFront once,
\* with that box's id, and requests the commit of exactly the returned
\* z-index for the element.
C18_MouseDownPromotesOnce ==
    [][ (IsCall /\ last'.via = "mousedown" /\ PressedElement \in LiveIds) =>
            LET id == PressedElement
            IN  /\ last'.op = "bringBoxToFront"
                /\ last'.arg = id
                /\ last'.outcome = "ok"
                /\ topIndex' = topIndex + 1
                /\ last'.ret = topIndex
                /\ \A i \in 1..Len(dragBoxList') :
                       dragBoxList'[i].id = id =>
                           dragBoxList'[i].zIndex = last'.ret
                /\ FramesOf(NewFrames, id, "zIndex")
                       = << setNewZIndex(id, last'.ret) >> ]_vars

\* A mousedown superseded a running session within a double gesture.
C18_Witness ==
    /\ last.op = "bringBoxToFront"
    /\ last.via = "mousedown"
    /\ last.outcome = "ok"
    /\ pressed[last.arg] >= 2
    /\ gestureLog[last.arg].runLen >= 2

\* The number of double-gesture events a run of n mousedowns is to fire.
ExpectedFires(n) == IF n >= 2 THEN 1 ELSE 0

\* C19 as stated: a run of mousedowns less than 250ms apart fires no event
\* before its quiet period is over, then exactly one event if it has two
\* or more mousedowns, and none if it has one.
C19_RunFiresOnce ==
    \A id \in wired :
        LET g == gestureLog[id]
        IN  /\ g.runFires <= ExpectedFires(g.runLen)
            /\ g.sinceDown > QuietPeriod =>
                   g.runFires = ExpectedFires(g.runLen)

\* C19 amended: the run is continued by every mousedown that is handled
\* before the timer callback of the previous one has run.  The callback
\* runs no earlier than 250ms after the last mousedown and before more
\* than 250ms have passed, and fires exactly one event if the run has two
\* or more mousedowns, none if it has one.
C19_ChainFiresOnce ==
    \A id \in wired :
        LET g == gestureLog[id]
        IN  /\ g.chainFires <= ExpectedFires(g.chainLen)
            /\ g.closed => g.chainFires = ExpectedFires(g.chainLen)
            /\ (g.closed /\ g.chainLen > 0) => g.sinceDown >= QuietPeriod
            /\ g.sinceDown > QuietPeriod => g.closed
            /\ g.runLen <= g.chainLen

\* Three mousedowns less than 250ms apart were followed by the quiet period
\* and fired one event.
C19_Witness ==
    \E id \in wired :
        /\ gestureLog[id].closed
        /\ gestureLog[id].chainLen >= 3
        /\ gestureLog[id].runLen >= 3
        /\ gestureLog[id].chainFires = 1

\* C20: mousemove and mouseup change neither the timers nor the gesture
\* buffers, and a double-gesture event leaves the sessions as they are.
C20_DragAndGestureIndependent ==
    [][ /\ (IsCall /\ last'.op \in {"mousemove", "mouseup"}) =>
               /\ debounce' = debounce
               /\ gestureBuffer' = gestureBuffer
        /\ (IsCall /\ last'.op = "debounce") =>
               /\ session' = session
               /\ captured' = captured ]_vars

\* A double-gesture event fired for an element that is being dragged.
C20_Witness ==
    /\ last.op = "debounce"
    /\ last.outcome = "fired"
    /\ session[last.arg] # <<>>
    /\ pressed[last.arg] >= 1

(***************************************************************************)
(* Properties of the engine in a document that may lack a collaborator     *)
(***************************************************************************)
\* C21: in a document without #app or without #header no mousedown is
\* handled by the engine and no step changes a registry counter through
\* bringBoxToFront: the wiring has failed before any pointer event.
C21_NoMouseDownWithoutCollaborators ==
    [][ CollaboratorMissing =>
            /\ ~(IsCall /\ last'.via = "mousedown")
            /\ (IsCall /\ last'.op = "bringBoxToFront"
                    /\ last'.via = "mousedown") => topIndex' = topIndex
      ]_vars

\* The position that follows from captured values c for a pointer at
\* (clientX, clientY).
PositionFrom(c, clientX, clientY) ==
    [ newLeft |-> Math_min(Math_max(clientX - c.offsetX, 0),
                           c.maxWidth - c.boxWidth),
      newTop  |-> Math_min(Math_max(clientY - c.offsetY, 0),
                           c.maxHeight - c.boxHeight) ]

\* C22: a mousedown that starts a session captures the offset, the bounds
\* and the box size from the geometry of that moment; a double-gesture
\* event, a paint (which may resize the box), a change of the container's
\* size, a mousemove and the passing of time leave the values of a running
\* session as they are, and every mousemove of the session requests the
\* position that follows from exactly these values.
C22_SessionValuesFixedAtMouseDown ==
    [][ /\ (IsCall /\ last'.via = "mousedown") =>
               LET id == PressedElement
               IN  session'[id] # <<>> =>
                       /\ session'[id][1].boxWidth = style[id].width
                       /\ session'[id][1].boxHeight = style[id].height
                       /\ session'[id][1].maxWidth = app.clientWidth
                       /\ session'[id][1].maxHeight
                              = app.clientHeight - app.headerHeight
                       /\ session'[id][1].offsetX \in
                              { g[1] : g \in GrabPoints }
                       /\ captured'[id] = session'[id]
        /\ \A id \in wired :
               ( /\ session[id] # <<>>
                 /\ ~(IsCall /\ last'.via = "mousedown")
                 /\ ~(IsCall /\ last'.op = "mouseup") ) =>
                   /\ session'[id] = session[id]
                   /\ captured'[id] = captured[id]
        /\ (IsCall /\ last'.op = "mousemove") =>
               \A id \in wired :
                   session[id] # <<>> =>
                       /\ captured[id] = session[id]
                       /\ FramesOf(NewFrames, id, "transform")
                              = << dragTransform(id,
                                       PositionFrom(captured[id][1],
                                                    last'.arg, last'.ret)) >>
      ]_vars

\* A mousemove arrives for a session whose box was resized by a painted
\* double gesture after the mousedown that started the session.
C22_Witness ==
    /\ last.op = "mousemove"
    /\ \E id \in wired :
           /\ session[id] # <<>>
           /\ session[id][1].boxWidth # style[id].width
           /\ session[id][1].boxHeight # style[id].height
           /\ FramesOf(raf, id, "transform") # <<>>

\* C23: a double-gesture event requests one resize whose width and height
\* are exactly 13/10 of the box's measured width and height; the paint sets
\* the element's size to the last resize requested for it and leaves the
\* size of an element without pending resize as it is; no other step
\* changes the size of an element.
C23_ResizeByThirteenTenths ==
    [][ /\ (IsCall /\ last'.op = "debounce" /\ last'.outcome = "fired") =>
               /\ Len(NewFrames) = 1
               /\ NewFrames[1].el = last'.arg
               /\ NewFrames[1].kind = "size"
               /\ NewFrames[1].x * 10 = Rect(last'.arg).width * 13
               /\ NewFrames[1].y * 10 = Rect(last'.arg).height * 13
        /\ (IsCall /\ last'.op = "paint") =>
               \A id \in wired :
                   LET sizes == FramesOf(raf, id, "size")
                   IN  IF sizes = <<>>
                       THEN /\ style'[id].width = style[id].width
                            /\ style'[id].height = style[id].height
                       ELSE /\ style'[id].width = sizes[Len(sizes)].x
                            /\ style'[id].height = sizes[Len(sizes)].y
        /\ ~(IsCall /\ last'.op = "paint") =>
               \A id \in wired :
                   /\ style'[id].width = style[id].width
                   /\ style'[id].height = style[id].height
        /\ ~(IsCall /\ last'.op = "debounce" /\ last'.outcome = "fired") =>
               \A i \in 1..Len(NewFrames) : NewFrames[i].kind # "size"
      ]_vars

\* A paint gave a 200px x 130px box the size 260px x 169px.
C23_Witness ==
    /\ last.op = "paint"
    /\ \E id \in wired :
           /\ style[id].width = Px(260)
           /\ style[id].height = Px(169)

\* C24: no step other than a paint removes or reorders a pending callback,
\* a mousemove appends the position commit and the text commit of each
\* dragging element behind the pending ones, and a paint runs every
\* pending callback: afterwards none is pending, and an element with
\* pending position commits shows the translation and the text of the last
\* one requested, an element with none shows what it showed before.
C24_CommitsInOrderNoneLost ==
    [][ /\ ~(IsCall /\ last'.op = "paint") =>
               /\ Len(raf') >= Len(raf)
               /\ SubSeq(raf', 1, Len(raf)) = raf
        /\ (IsCall /\ last'.op = "mousemove") =>
               \A id \in wired :
                   session[id] # <<>> =>
                       LET pos == PositionFrom(session[id][1],
                                               last'.arg, last'.ret)
                       IN  /\ FramesOf(NewFrames, id, "transform")
                                  = << dragTransform(id, pos) >>
                           /\ FramesOf(NewFrames, id, "text")
                                  = << displayPosition(id, pos) >>
        /\ (IsCall /\ last'.op = "paint") =>
               /\ raf' = <<>>
               /\ last'.ret = Len(raf)
               /\ \A id \in wired :
                      LET moves == FramesOf(raf, id, "transform")
                          texts == FramesOf(raf, id, "text")
                      IN  /\ IF moves = <<>>
                             THEN /\ style'[id].left = style[id].left
                                  /\ style'[id].top = style[id].top
                             ELSE /\ style'[id].left = moves[Len(moves)].x
                                  /\ style'[id].top = moves[Len(moves)].y
                          /\ IF texts = <<>>
                             THEN /\ style'[id].textX = style[id].textX
                                  /\ style'[id].textY = style[id].textY
                             ELSE /\ style'[id].textX = texts[Len(texts)].x
                                  /\ style'[id].textY = texts[Len(texts)].y
      ]_vars

\* A paint ran two different position commits of the only box, which now
\* shows a translation away from its origin.
C24_Witness ==
    /\ last.op = "paint"
    /\ last.arg >= 2
    /\ Cardinality(wired) = 1
    /\ \E id \in wired :
           /\ style[id].left > 0
           /\ style[id].textX = style[id].left
           /\ style[id].textY = style[id].top

\* C25: a paint whose pending callbacks hold a position commit and a
\* resize for the same element, in whichever order they were requested,
\* leaves the element with the translation of the last position commit
\* and with the size of the last resize.
C25_PositionAndResizeBothApplied ==
    [][ (IsCall /\ last'.op = "paint") =>
            \A id \in wired :
                LET moves == FramesOf(raf, id, "transform")
                    sizes == FramesOf(raf, id, "size")
                IN  (moves # <<>> /\ sizes # <<>>) =>
                        /\ style'[id].left = moves[Len(moves)].x
                        /\ style'[id].top = moves[Len(moves)].y
                        /\ style'[id].width = sizes[Len(sizes)].x
                        /\ style'[id].height = sizes[Len(sizes)].y ]_vars

\* A paint ran a position commit and then a resize of the same element,
\* which now is away from its origin and has the size 260px x 169px.
C25_Witness ==
    /\ last.op = "paint"
    /\ \E i, j \in 1..Len(last.box) :
           /\ i < j
           /\ last.box[i].kind = "transform"
           /\ last.box[j].kind = "size"
           /\ last.box[i].el = last.box[j].el
           /\ style[last.box[i].el].left > 0
           /\ style[last.box[i].el].width = Px(260)
           /\ style[last.box[i].el].height = Px(169)

\* The mousedown of the step raised an error in the drag pipeline of the
\* pressed element: its subscription was alive before and is not after.
MouseDownRaised ==
    /\ IsCall
    /\ last'.via = "mousedown"
    /\ PressedElement \in dragSub
    /\ PressedElement \notin dragSub'

\* C26: a mousedown that raises an error changes neither a registry
\* counter nor the zIndex of a live box, and it changes neither the
\* subscription, the session, the captured values, the gesture buffer nor
\* the timer of any other element.
C26_MouseDownErrorIsLocal ==
    [][ MouseDownRaised =>
            /\ boxId' = boxId
            /\ zIndex' = zIndex
            /\ topIndex' = topIndex
            /\ dragBoxList' = dragBoxList
            /\ \A other \in wired \ {PressedElement} :
                   /\ (other \in dragSub') = (other \in dragSub)
                   /\ session'[other] = session[other]
                   /\ captured'[other] = captured[other]
                   /\ gestureBuffer'[other] = gestureBuffer[other]
                   /\ debounce'[other] = debounce[other] ]_vars

\* C27: the session of a dragging element changes only in a mouseup or in
\* a mousedown on its own handle; a mousemove, a double-gesture event, a
\* paint, the creation or deletion of a box, a change of the container and
\* a mousedown on another handle leave it as it is; after a mouseup no
\* element has a session.
C27_SessionEndsOnlyByUpOrOwnDown ==
    [][ /\ \A id \in wired :
               (session[id] # <<>> /\ session'[id] # session[id]) =>
                   /\ IsCall
                   /\ \/ last'.op = "mouseup"
                      \/ (last'.via = "mousedown" /\ PressedElement = id)
        /\ (IsCall /\ last'.op \in {"mousemove", "debounce", "paint",
                                    "createNewBox", "deleteBox", "resize"}) =>
               session' = [id \in wired' |->
                              IF id \in wired THEN session[id] ELSE <<>>]
        /\ (IsCall /\ last'.op = "mouseup") =>
               \A id \in wired' : session'[id] = <<>> ]_vars

\* One mouseup ended the sessions of two elements that were dragging at
\* the same time.
C27_Witness ==
    /\ last.op = "mouseup"
    /\ Len(raf) = 6
    /\ raf[1].kind = "zIndex"
    /\ raf[3].kind = "zIndex"
    /\ raf[1].el # raf[3].el
    /\ captured[raf[1].el] # <<>>
    /\ captured[raf[3].el] # <<>>
    /\ \A id \in wired : session[id] = <<>>

(***************************************************************************)
(* Invariants of the registry                                              *)
(***************************************************************************)
\* C28: no two live boxes have the same zIndex.
C28_LiveZIndexesDistinct ==
    \A i, j \in 1..Len(dragBoxList) :
        i # j => dragBoxList[i].zIndex # dragBoxList[j].zIndex

\* C29: the zIndex of every live box is less than topIndex.
C29_LiveZIndexBelowTopIndex ==
    \A i \in 1..Len(dragBoxList) : dragBoxList[i].zIndex < topIndex

\* Three boxes are live, one of them was promoted twice and holds the
\* value right below topIndex.
C29_Witness ==
    /\ Len(dragBoxList) >= 3
    /\ last.op = "bringBoxToFront"
    /\ last.outcome = "ok"
    /\ topIndex >= 6
    /\ \E i \in 1..Len(dragBoxList) : dragBoxList[i].zIndex = topIndex - 1

\* What the counters gain in a step: one for boxId and topIndex in a
\* createNewBox call, one for topIndex in a bringBoxToFront call that
\* returns, nothing otherwise; before the first call both counters are 1.
CountersAccountForCalls ==
    /\ nCalls = 0 => (boxId = 1 /\ topIndex = 1)
    /\ boxId = 1 + Len(createdIds)
    /\ boxId' = 1 + Len(createdIds')
    /\ boxId' - boxId =
           IF IsCall /\ last'.op = "createNewBox" THEN 1 ELSE 0
    /\ topIndex' - topIndex =
           IF IsCall /\ last'.op = "createNewBox" THEN 1
           ELSE IF IsCall /\ last'.op = "bringBoxToFront"
                          /\ last'.outcome = "ok" THEN 1
           ELSE 0

\* C30 as stated: boxId is 1 plus the number of createNewBox calls,
\* topIndex is 1 plus the number of createNewBox calls plus the number of
\* bringBoxToFront calls that returned, and every mousedown on a handle
\* raises topIndex by one, so that n mousedowns raise it by n.
C30_EveryMouseDownPromotes ==
    [][ /\ CountersAccountForCalls
        /\ (IsCall /\ last'.via = "mousedown") =>
               topIndex' = topIndex + 1 ]_vars

\* C30 amended: the accounting of the counters as above; a mousedown on a
\* handle raises topIndex by one when the box is live and the drag
\* subscription of the element has not been ended by an error, and leaves
\* it as it is otherwise, so that n mousedowns of the first kind raise it
\* by n.
C30_CounterAccounting ==
    [][ /\ CountersAccountForCalls
        /\ (IsCall /\ last'.via = "mousedown") =>
               IF PressedElement \in LiveIds /\ PressedElement \in dragSub
               THEN topIndex' = topIndex + 1
               ELSE topIndex' = topIndex ]_vars

\* The second mousedown of a double gesture promoted the box again: two
\* promotions are counted on top of the creations.
C30_Witness ==
    /\ last.op = "bringBoxToFront"
    /\ last.via = "mousedown"
    /\ last.outcome = "ok"
    /\ gestureLog[last.arg].chainLen = 2
    /\ gestureBuffer[last.arg] = 2
    /\ topIndex = 1 + Len(createdIds) + 2

(***************************************************************************)
(* Properties of the page as a whole                                       *)
(***************************************************************************)
\* The elements that have a session.
Dragging == { id \in wired : session[id] # <<>> }

\* C31: at most one element has a session, and a mousemove requests
\* position commits for at most one element.
C31_AtMostOneDragging ==
    [][ /\ Cardinality(Dragging) <= 1
        /\ (IsCall /\ last'.op = "mousemove") =>
               Cardinality({ id \in wired :
                   FramesOf(NewFrames, id, "transform") # <<>> }) <= 1
      ]_vars

\* C32: under the view's handlers the attached boxes are exactly the live
\* boxes of the registry, and every mousedown on a handle finds its box:
\* bringBoxToFront returns and nothing is thrown.
C32_ViewKeepsDomAndRegistryEqual ==
    [][ /\ dom = LiveIds
        /\ dom' = LiveIds'
        /\ (IsCall /\ last'.via = "mousedown") =>
               /\ last'.op = "bringBoxToFront"
               /\ last'.outcome = "ok"
               /\ last'.live
               /\ dragSub' = dragSub ]_vars

\* A mousedown on the handle of the box that remained after the other
\* box was deleted with its delete button.
C32_Witness ==
    /\ last.via = "mousedown"
    /\ last.outcome = "ok"
    /\ deletedIds # {}
    /\ Len(createdIds) >= 2
    /\ dom = {last.arg}

\* C33: whenever no callback is pending, the style z-index of every
\* attached box is the zIndex of its registry record; a paint gives an
\* element with pending z-index commits the value of the last one.
C33_StyleZIndexFollowsRegistry ==
    [][ /\ raf = <<>> =>
               \A id \in dom :
                   id \in LiveIds /\ style[id].zIndex = zIndexOf(id)
        /\ raf' = <<>> =>
               \A id \in dom' :
                   (id \in LiveIds /\ style[id].zIndex = zIndexOf(id))'
        /\ (IsCall /\ last'.op = "paint") =>
               \A id \in wired :
                   LET zs == FramesOf(raf, id, "zIndex")
                   IN  zs # <<>> => style'[id].zIndex = zs[Len(zs)].x
      ]_vars

\* A paint ran two z-index commits of one attached box, which now shows
\* the second value.
C33_Witness ==
    /\ last.op = "paint"
    /\ \E i, j \in 1..Len(last.box) :
           /\ i < j
           /\ last.box[i].kind = "zIndex"
           /\ last.box[j].kind = "zIndex"
           /\ last.box[i].el = last.box[j].el
           /\ last.box[i].x < last.box[j].x
           /\ last.box[j].el \in dom
           /\ style[last.box[j].el].zIndex = last.box[j].x

\* The painted box lies inside #app.
Inside(id) ==
    /\ style[id].left >= 0
    /\ style[id].top >= 0
    /\ style[id].left + style[id].width <= app.clientWidth
    /\ style[id].top + style[id].height
           <= app.clientHeight - app.headerHeight

\* C34: in a container that holds a new box and keeps its size, every
\* attached box lies inside the container, in particular after every
\* paint.
C34_BoxStaysInsideContainer ==
    \A id \in dom : Inside(id)

\* C35: a mousedown changes no registry field but topIndex and the zIndex
\* of the pressed box; a mousemove, a mouseup, a double-gesture event, a
\* paint and the passing of time change no registry field at all; the
\* position of every registry record is (0,0) throughout.
C35_DragLeavesRegistryPositions ==
    [][ /\ \A i \in 1..Len(dragBoxList') :
               dragBoxList'[i].position = [x |-> 0, y |-> 0]
        /\ (IsCall /\ last'.via = "mousedown") =>
               /\ boxId' = boxId
               /\ zIndex' = zIndex
               /\ Len(dragBoxList') = Len(dragBoxList)
               /\ \A i \in 1..Len(dragBoxList) :
                      /\ dragBoxList'[i].id = dragBoxList[i].id
                      /\ dragBoxList'[i].config = dragBoxList[i].config
                      /\ dragBoxList'[i].position = dragBoxList[i].position
                      /\ dragBoxList[i].id # PressedElement =>
                             dragBoxList'[i] = dragBoxList[i]
        /\ ~(IsCall /\ last'.op \in {"createNewBox", "deleteBox",
                                     "bringBoxToFront"}) =>
               registry' = registry ]_vars

\* A paint moved a promoted box away from its origin on the screen while
\* its registry record still holds the position (0,0).
C35_Witness ==
    /\ last.op = "paint"
    /\ last.arg >= 1
    /\ \E i \in 1..Len(dragBoxList) :
           /\ dragBoxList[i].id \in dom
           /\ style[dragBoxList[i].id].left > 0
           /\ style[dragBoxList[i].id].top > 0
           /\ dragBoxList[i].zIndex >= 2
           /\ dragBoxList[i].position = [x |-> 0, y |-> 0]

\* C36: the buffer of an element holds exactly the mousedowns handled
\* since its last closing; the timer callback runs when the timer is due,
\* evaluates the whole buffer once and starts an empty one; and a buffer
\* that holds a mousedown is eventually closed.
C36_BufferEventuallyCloses ==
    /\ [](\A id \in wired :
              gestureBuffer[id] = IF gestureLog[id].closed THEN 0
                                  ELSE gestureLog[id].chainLen)
    /\ [][ (IsCall /\ last'.op = "debounce") =>
               /\ debounce[last'.arg] = 0
               /\ last'.ret = gestureBuffer[last'.arg]
               /\ last'.ret = gestureLog[last'.arg].chainLen
               /\ last'.ret >= 1
               /\ gestureBuffer'[last'.arg] = 0
               /\ debounce'[last'.arg] = -1 ]_vars
    /\ \A id \in 1..MaxBoxes :
           (id \in wired /\ gestureBuffer[id] > 0)
               ~> (id \in wired /\ gestureBuffer[id] = 0)

\* The timer callback closed a buffer of one mousedown without an event,
\* and the next buffer is empty.
C36_Witness ==
    /\ last.op = "debounce"
    /\ last.outcome = "filtered"
    /\ last.ret = 1
    /\ gestureBuffer[last.arg] = 0
    /\ gestureLog[last.arg].closed

====
